---------------------------- MODULE Spec2Model ----------------------------
(***************************************************************************)
(* Model of the ICMR STW crawler (src/src/crawler.py, src/src/utils.py).   *)
(*                                                                         *)
(* URLs, header values and filenames are character strings, as in the      *)
(* code; the string functions the code calls (lower, endswith, in, split,  *)
(* urlparse, urljoin, basename, int) are computed character by character.  *)
(* The web server is the environment: every answer to a request is a       *)
(* nondeterministic choice among the outcomes a server can produce.        *)
(***************************************************************************)
EXTENDS Integers, Sequences, FiniteSets, TLC

(***************************************************************************)
(* Configuration (crawler.py:11-18)                                        *)
(***************************************************************************)
START_URL == "https://www.icmr.gov.in/standard-treatment-workflows-stws"
\* DOMAIN in the source; DOMAIN is a reserved word of TLA+
DOMAIN_SUFFIX == "icmr.gov.in"
MIN_FILE_SIZE == 50 * 1024
\* The source sets 1000; the model scales the ceiling down so that runs reach it.
MAX_PAGES == 3
DOWNLOAD_DIR == "data/downloads"
METADATA_DIR == "data/metadata"

(***************************************************************************)
(* Bounds of the model                                                     *)
(***************************************************************************)
\* The largest number of anchors the server puts on one HTML page.
MaxLinks == 2
\* The largest number of interpreter processes that call sanitize_filename on one URL.
MaxRuns == 2

(***************************************************************************)
(* Python string primitives.  The ones that look at their argument more    *)
(* than once are functions on STRING, so that the argument is a value.     *)
(***************************************************************************)
CharAt(s, i) == SubSeq(s, i, i)

\* s.startswith(p)
StartsWith[s \in STRING, p \in STRING] ==
    Len(s) >= Len(p) /\ SubSeq(s, 1, Len(p)) = p

\* s.endswith(p)
EndsWith[s \in STRING, p \in STRING] ==
    Len(s) >= Len(p) /\ SubSeq(s, Len(s) - Len(p) + 1, Len(s)) = p

\* s.find(p, i - 1) + 1: the 1-based position of the first occurrence of p at or after i, 0 if none
FindFrom[s \in STRING, p \in STRING, i \in Nat] ==
    IF i + Len(p) - 1 > Len(s) THEN 0
    ELSE IF SubSeq(s, i, i + Len(p) - 1) = p THEN i
    ELSE FindFrom[s, p, i + 1]

\* s.find(p) + 1
Find(s, p) == FindFrom[s, p, 1]

\* The 1-based position of the last occurrence of p that starts at or before i, 0 if none
RFindFrom[s \in STRING, p \in STRING, i \in Int] ==
    IF i < 1 THEN 0
    ELSE IF SubSeq(s, i, i + Len(p) - 1) = p THEN i
    ELSE RFindFrom[s, p, i - 1]

\* s.rfind(p) + 1
RFind[s \in STRING, p \in STRING] == RFindFrom[s, p, Len(s) - Len(p) + 1]

\* p in s
Contains(s, p) == Find(s, p) # 0

\* The lower-case letter of each upper-case letter
LowerOf == [A |-> "a", B |-> "b", C |-> "c", D |-> "d", E |-> "e", F |-> "f", G |-> "g",
            H |-> "h", I |-> "i", J |-> "j", K |-> "k", L |-> "l", M |-> "m", N |-> "n",
            O |-> "o", P |-> "p", Q |-> "q", R |-> "r", S |-> "s", T |-> "t", U |-> "u",
            V |-> "v", W |-> "w", X |-> "x", Y |-> "y", Z |-> "z"]

UpperLetters == {"A", "B", "C", "D", "E", "F", "G", "H", "I", "J", "K", "L", "M",
                 "N", "O", "P", "Q", "R", "S", "T", "U", "V", "W", "X", "Y", "Z"}

LowerLetters == {LowerOf[c] : c \in UpperLetters}

LowerChar[c \in STRING] == IF c \in UpperLetters THEN LowerOf[c] ELSE c

\* s.lower()
Lower[s \in STRING] ==
    IF s = "" THEN "" ELSE LowerChar[CharAt(s, 1)] \o Lower[SubSeq(s, 2, Len(s))]

LStrip[s \in STRING] == IF StartsWith[s, " "] THEN LStrip[SubSeq(s, 2, Len(s))] ELSE s

RStrip[s \in STRING] == IF EndsWith[s, " "] THEN RStrip[SubSeq(s, 1, Len(s) - 1)] ELSE s

\* s.strip()
Strip(s) == RStrip[LStrip[s]]

\* The part of s before position k, all of s when k = 0
Before[s \in STRING, k \in Nat] == IF k = 0 THEN s ELSE SubSeq(s, 1, k - 1)

\* s.split(sep)[0]
SplitFirst[s \in STRING, sep \in STRING] == Before[s, Find(s, sep)]

FirstOfFrom[s \in STRING, chars \in SUBSET STRING, i \in Nat] ==
    IF i > Len(s) THEN Len(s) + 1
    ELSE IF CharAt(s, i) \in chars THEN i
    ELSE FirstOfFrom[s, chars, i + 1]

\* The 1-based position of the first character of s that is in the set chars, Len(s)+1 if none
FirstOf(s, chars) == FirstOfFrom[s, chars, 1]

(***************************************************************************)
(* urllib.parse.urlparse, as far as the code reads its result: the scheme, *)
(* the netloc and the path.                                                *)
(***************************************************************************)
\* The characters of a scheme
SchemeChars == UpperLetters \cup LowerLetters \cup
               {"0", "1", "2", "3", "4", "5", "6", "7", "8", "9", "+", "-", "."}

\* Whether the k - 1 characters before a colon at k make a scheme
IsScheme[url \in STRING, k \in Nat] ==
    /\ k > 1
    /\ CharAt(url, 1) \in UpperLetters \cup LowerLetters
    /\ \A i \in 1..(k - 1) : CharAt(url, i) \in SchemeChars

\* The length of the "scheme:" prefix of url, 0 when url has no scheme.
SchemeEnd[url \in STRING] ==
    IF IsScheme[url, Find(url, ":")] THEN Find(url, ":") ELSE 0

UrlScheme[url \in STRING] ==
    IF SchemeEnd[url] = 0 THEN "" ELSE Lower[SubSeq(url, 1, SchemeEnd[url] - 1)]

\* What follows the scheme
AfterScheme[url \in STRING] == SubSeq(url, SchemeEnd[url] + 1, Len(url))

\* The part of s from position i on
From[s \in STRING, i \in Nat] == SubSeq(s, i, Len(s))

\* The part of s before the first character that is in chars
Upto[s \in STRING, chars \in SUBSET STRING] == SubSeq(s, 1, FirstOf(s, chars) - 1)

\* The part of s from the first character that is in chars
After[s \in STRING, chars \in SUBSET STRING] == SubSeq(s, FirstOf(s, chars), Len(s))

UrlNetloc[url \in STRING] ==
    IF StartsWith[AfterScheme[url], "//"]
    THEN Upto[From[AfterScheme[url], 3], {"/", "?", "#"}]
    ELSE ""

\* urlparse raises ValueError("Invalid IPv6 URL") on an unbalanced bracket in the netloc
UrlParseRaises[url \in STRING] ==
    Contains(UrlNetloc[url], "[") # Contains(UrlNetloc[url], "]")

UrlPath[url \in STRING] ==
    Upto[IF StartsWith[AfterScheme[url], "//"]
         THEN After[From[AfterScheme[url], 3], {"/", "?", "#"}]
         ELSE AfterScheme[url],
         {"?", "#", ";"}]

\* os.path.basename(p)
Basename[p \in STRING] == SubSeq(p, RFind[p, "/"] + 1, Len(p))

(***************************************************************************)
(* urllib.parse.urljoin(base, href) for the shapes of href the model's     *)
(* pages carry: an absolute URL, a reference that starts with "/", and     *)
(* the empty reference.                                                    *)
(***************************************************************************)
UsesRelative == {"http", "https", "ftp", "file", ""}

UrlJoinRaises(base, href) == UrlParseRaises[href]

urljoin[base \in STRING, href \in STRING] ==
    IF href = "" THEN base
    ELSE IF UrlScheme[href] # "" /\ (UrlScheme[href] # UrlScheme[base]
                                     \/ UrlScheme[href] \notin UsesRelative)
    THEN href
    ELSE IF UrlNetloc[href] # "" THEN href
    ELSE UrlScheme[base] \o "://" \o UrlNetloc[base] \o AfterScheme[href]

(***************************************************************************)
(* URL classifier (crawler.py:42-64, 126, 168, 174-182)                    *)
(***************************************************************************)
is_valid_url(u) ==
    IF UrlScheme[u] \notin {"http", "https"}
    THEN FALSE
    ELSE EndsWith[UrlNetloc[u], DOMAIN_SUFFIX] \/ UrlNetloc[u] = ""

\* A relevance test that looks for the segment in the path only
is_relevant_pdf_path_only(u) ==
    IF Contains(Lower[UrlPath[u]], "/stws/") THEN TRUE
    ELSE IF Contains(Lower[Basename[UrlPath[u]]], "stw") THEN TRUE
    ELSE FALSE

is_relevant_pdf(u) ==
    IF Contains(Lower[u], "/stws/") THEN TRUE
    ELSE IF Contains(Lower[Basename[UrlPath[u]]], "stw") THEN TRUE
    ELSE FALSE

\* An extension test that minds the case of the letters
IsPdfUrlCaseSensitive(u) == EndsWith[u, ".pdf"]

\* url.lower().endswith(".pdf")
IsPdfUrl(u) == EndsWith[Lower[u], ".pdf"]

\* The keyword test of crawler.py:176-181
IsPromisingPage(u) ==
    \/ Contains(u, "standard-treatment-workflows")
    \/ Contains(u, "/stw")
    \/ Contains(u, "/STWs/")
    \/ Contains(u, "guidelines")

(***************************************************************************)
(* utils.py                                                                *)
(***************************************************************************)
\* urllib.parse.unquote for the escapes of the characters the code treats
\* specially; any other "%" stays as it is.
Escapes == [e \in {"%20", "%2F", "%2f", "%3F", "%3f"} |->
               CASE e = "%20" -> " "
                 [] e \in {"%2F", "%2f"} -> "/"
                 [] OTHER -> "?"]

unquote[s \in STRING] ==
    IF s = "" THEN ""
    ELSE IF Len(s) >= 3 /\ SubSeq(s, 1, 3) \in DOMAIN Escapes
         THEN Escapes[SubSeq(s, 1, 3)] \o unquote[SubSeq(s, 4, Len(s))]
         ELSE CharAt(s, 1) \o unquote[SubSeq(s, 2, Len(s))]

\* The character class of re.sub(r'[\\/*?:"<>|]', "", filename)
InvalidChars == {"\\", "/", "*", "?", ":", "\"", "<", ">", "|"}

RemoveInvalid[s \in STRING] ==
    IF s = "" THEN ""
    ELSE (IF CharAt(s, 1) \in InvalidChars THEN "" ELSE CharAt(s, 1))
         \o RemoveInvalid[SubSeq(s, 2, Len(s))]

Digits == "0123456789"

NatToStr[n \in Nat] ==
    IF n < 10 THEN CharAt(Digits, n + 1)
    ELSE NatToStr[n \div 10] \o CharAt(Digits, (n % 10) + 1)

\* str(n)
IntToStr[n \in Int] == IF n < 0 THEN "-" \o NatToStr[0 - n] ELSE NatToStr[n]

\* hash(url): Python salts the hash of a string with a seed it draws when the
\* process starts, so the value is a function of the seed and the string.
PyHash(seed, s) == seed * (Len(s) + 1)

\* utils.py:19-20: the name with its suffix
WithPdfSuffix[filename \in STRING] ==
    IF ~EndsWith[Lower[filename], ".pdf"] THEN filename \o ".pdf" ELSE filename

\* utils.py:11-20: the name before the fallback
DerivedName(u) == WithPdfSuffix[RemoveInvalid[Basename[unquote[UrlPath[u]]]]]

\* A test that never asks for the fallback name
UsesFallbackNever(u) == FALSE

\* utils.py:23: whether the fallback name is used
UsesFallback(u) == DerivedName(u) = "" \/ DerivedName(u) = ".pdf"

sanitize_filename(seed, u) ==
    IF UsesFallback(u)
    THEN "document_" \o IntToStr[PyHash(seed, u)] \o ".pdf"
    ELSE DerivedName(u)

\* Whether name has no character other than a dot before position k
OnlyDotsBefore[name \in STRING, k \in Nat] == \A i \in 1..(k - 1) : CharAt(name, i) = "."

\* os.path.splitext(name)[0]: the dots that begin a name do not start an extension
SplitextRoot[name \in STRING] ==
    IF RFind[name, "."] = 0 \/ OnlyDotsBefore[name, RFind[name, "."]]
    THEN name ELSE SubSeq(name, 1, RFind[name, "."] - 1)

\* os.path.join(dir, name), for a name that does not start with "/"
PathJoin(dir, name) == dir \o "/" \o name

\* The path generate_metadata writes to
MetadataPath(local_path, output_dir) ==
    PathJoin(output_dir, SplitextRoot[Basename[local_path]] \o ".json")

\* The record generate_metadata dumps; the timestamp is left out
MetadataRecord(u, local_path) ==
    [source_authority |-> "ICMR",
     document_type    |-> "Standard Treatment Workflow",
     original_url     |-> u,
     local_file_path  |-> local_path]

\* int(s): defined on the strings of decimal digits
IntRaises[s \in STRING] == s = "" \/ \E i \in 1..Len(s) : Find(Digits, CharAt(s, i)) = 0

ParseInt[s \in STRING] ==
    IF s = "" THEN 0
    ELSE 10 * ParseInt[SubSeq(s, 1, Len(s) - 1)] + (Find(Digits, CharAt(s, Len(s))) - 1)

(***************************************************************************)
(* The environment: what a page can link to and what a server can answer   *)
(***************************************************************************)
\* The href attributes a page can carry
Hrefs == {"https://icmr.gov.in/guidelines",
          "/STWs/a.PDF#p2",
          "https://evilicmr.gov.in/stw",
          "https://example.com/stw",
          " /about ",
          "http://["}

\* A response is its status code and its headers, a dictionary
Headers(ct, cl) == [k \in {x \in {"Content-Type"} : ct # <<>>} \cup
                          {x \in {"Content-Length"} : cl # <<>>} |->
                       IF k = "Content-Type" THEN ct[1] ELSE cl[1]]

\* headers.get(k, default)
HeaderGet(h, k, default) == IF k \in DOMAIN h THEN h[k] ELSE default

HasHeader(h, k) == k \in DOMAIN h

\* The answers to the GET of the crawl loop, which reads the status and the content type
PageResponses ==
    {[status_code |-> 404, headers |-> Headers(<<"text/html">>, <<>>)]} \cup
    {[status_code |-> 200, headers |-> Headers(ct, <<>>)] :
        ct \in {<<"text/html; charset=UTF-8">>, <<"Application/PDF">>, <<"image/png">>, <<>>}}

\* The answers to the GET of process_pdf, which also reads the declared length
PdfResponses ==
    {[status_code |-> 404, headers |-> Headers(<<"application/pdf">>, <<>>)],
     [status_code |-> 200, headers |-> Headers(<<"text/html">>, <<>>)]} \cup
    {[status_code |-> 200, headers |-> Headers(<<"application/pdf">>, cl)] :
        cl \in {<<>>, <<"">>, <<"1024">>, <<"80000">>, <<"abc">>}}

\* The numbers of bytes a body can have
BodySizes == {40000, 80000}

\* The seeds the interpreter can draw for hash(); 0 stands for a seed not drawn yet
HashSeeds == {1, 2}

NoResponse == [status_code |-> 0, headers |-> Headers(<<>>, <<>>)]

(***************************************************************************)
(* State                                                                   *)
(***************************************************************************)
VARIABLES
    visited,        \* self.visited
    queue,          \* self.queue
    pages_crawled,  \* crawl's counter
    pc,             \* the statement the crawler is at
    url,            \* the URL dequeued last
    response,       \* the response of the request in progress
    content,        \* len(content) in process_pdf, -1 before the body is read
    local_path,     \* process_pdf's local_path, "" before it is set
    anchors,        \* the number of anchors of the current page handled so far
    files,          \* the download directory: path -> [url, size]
    metas,          \* the metadata directory: path -> record
    hash_seed,      \* the seed of hash() in this process, 0 until hash() needs it
    log_level,      \* the level of the message the last step logged, "" if none
    \* history
    processed,      \* the URLs in the order they were added to visited
    pdf_calls,      \* url -> number of calls of process_pdf
    parse_calls,    \* url -> number of pages handed to the HTML parser
    body_read,      \* whether body bytes of url have been downloaded
    writes,         \* path -> number of times the path was written
    queue_src,      \* for each queue entry, the page that appended it and its rank there
    dequeued,       \* the sources of the entries dequeued, in order
    requests,       \* url -> the outcomes of the GET requests issued for it, in order
    unslept,        \* whether a page was fetched and time.sleep has not run since
    \* a classifier function applied on its own
    fn_in,          \* the argument
    fn_out          \* the result, <<>> before the call

history == <<processed, pdf_calls, parse_calls, writes, queue_src, dequeued>>

\* the locals of one iteration of the loop
locals == <<response, content, local_path, anchors, body_read>>

crawler == <<visited, queue, pages_crawled, pc, url, files, metas, hash_seed, log_level>>

\* what the network has seen of the run
network == <<requests, unslept>>

vars == <<crawler, locals, history, network, fn_in, fn_out>>

\* f with the count of k raised by one
Inc(f, k) == [x \in DOMAIN f \cup {k} |-> IF x = k
                                          THEN (IF k \in DOMAIN f THEN f[k] ELSE 0) + 1
                                          ELSE f[x]]

\* f with k bound to v
Put(f, k, v) == [x \in DOMAIN f \cup {k} |-> IF x = k THEN v ELSE f[x]]

Count(f, k) == IF k \in DOMAIN f THEN f[k] ELSE 0

Empty == [x \in {} |-> 0]

SeedSrc == [page |-> "", k |-> 0, url |-> START_URL]

\* crawler.py:32-40, 121
InitCrawler ==
    /\ visited = {}
    /\ queue = <<START_URL>>
    /\ pages_crawled = 0
    /\ pc = "loop"
    /\ url = ""
    /\ response = NoResponse
    /\ content = -1
    /\ local_path = ""
    /\ anchors = 0
    /\ files = Empty
    /\ metas = Empty
    /\ hash_seed = 0
    /\ log_level = ""
    /\ processed = <<>>
    /\ pdf_calls = Empty
    /\ parse_calls = Empty
    /\ body_read = FALSE
    /\ writes = Empty
    /\ queue_src = <<SeedSrc>>
    /\ dequeued = <<>>
    /\ requests = Empty
    /\ unslept = FALSE

Init ==
    /\ InitCrawler
    /\ fn_in = ""
    /\ fn_out = <<>>

(***************************************************************************)
(* The crawl loop (crawler.py:120-190)                                     *)
(***************************************************************************)
\* A visited test that never finds the URL
SeenNever(u) == FALSE

\* url in self.visited (crawler.py:127, 133, 169, 175)
Seen(u) == u \in visited

\* A handler that gives the exception up to the caller of crawl(), ending the run
CrawlExceptAborts == "done"

\* A handler that sends the request again
CrawlExceptRetry == "get"

\* Where control goes when the try of the crawl loop catches an exception:
\* the handler logs and the loop goes on with its next iteration.
CrawlExcept == "loop"

\* An exception that leaves process_pdf and ends the run
PdfExceptPropagates == "done"

\* Where control goes when the try of process_pdf catches an exception: the
\* handler logs, process_pdf returns and its caller goes on with the loop.
PdfExcept == "loop"

\* The locals of an iteration die when the iteration ends
EndIteration(target) ==
    /\ pc' = target
    /\ response' = NoResponse
    /\ content' = -1
    /\ local_path' = ""
    /\ anchors' = 0
    /\ body_read' = FALSE

\* An exception is caught by the handler that logs it as an error
Raise(target) ==
    /\ EndIteration(target)
    /\ log_level' = "error"

FnUnchanged == UNCHANGED <<fn_in, fn_out>>

\* while self.queue and pages_crawled < MAX_PAGES (crawler.py:123)
LoopCondition == queue # <<>> /\ pages_crawled < MAX_PAGES

\* crawler.py:123-137: the head of the queue is taken and passes the visited gate
Dequeue ==
    /\ pc = "loop"
    /\ LoopCondition
    /\ url' = Head(queue)
    /\ queue' = Tail(queue)
    /\ queue_src' = Tail(queue_src)
    /\ dequeued' = Append(dequeued, Head(queue_src))
    /\ IF Seen(Head(queue))
       THEN /\ pc' = "loop"
            /\ log_level' = ""
            /\ UNCHANGED <<visited, processed>>
       ELSE /\ visited' = visited \cup {Head(queue)}
            /\ processed' = Append(processed, Head(queue))
            /\ pc' = IF IsPdfUrl(Head(queue)) THEN "process_pdf" ELSE "get"
            /\ log_level' = IF IsPdfUrl(Head(queue)) THEN "" ELSE "info"
    /\ UNCHANGED <<pages_crawled, files, metas, hash_seed>>
    /\ UNCHANGED locals
    /\ UNCHANGED <<pdf_calls, parse_calls, writes>>
    /\ UNCHANGED network
    /\ FnUnchanged

\* crawler.py:123, 190: the loop ends
Finish ==
    /\ pc = "loop"
    /\ ~LoopCondition
    /\ pc' = "done"
    /\ log_level' = "info"
    /\ UNCHANGED <<visited, queue, pages_crawled, url, files, metas, hash_seed>>
    /\ UNCHANGED locals
    /\ UNCHANGED history
    /\ UNCHANGED network
    /\ FnUnchanged

\* response.headers.get("Content-Type", "").lower()
ContentType(r) == Lower[HeaderGet(r.headers, "Content-Type", "")]

\* What a response is to the one who asked for it: a failure when its status
\* is not 200 (crawler.py:71, 141), a document when its content type says so
\* (crawler.py:148)
Outcome(r) ==
    IF r.status_code # 200 THEN "failed"
    ELSE IF Contains(ContentType(r), "application/pdf") THEN "pdf"
    ELSE "ok"

\* The outcome o of a request for u joins the outcomes of the requests for u
Log(f, u, o) == Put(f, u, Append(IF u \in DOMAIN f THEN f[u] ELSE <<>>, o))

\* The last request for u turns out to have failed
Fail(f, u) == Put(f, u, Append(SubSeq(f[u], 1, Len(f[u]) - 1), "failed"))

\* crawler.py:140: the GET of the page branch. It does not stream, so the
\* body is downloaded before the call returns.
FetchPage ==
    /\ pc = "get"
    /\ \/ \E r \in PageResponses :
            /\ response' = r
            /\ body_read' = TRUE
            /\ pc' = "dispatch"
            /\ log_level' = ""
            /\ requests' = Log(requests, url, Outcome(r))
            /\ UNCHANGED <<content, local_path, anchors>>
       \/ /\ Raise(CrawlExcept)
          /\ requests' = Log(requests, url, "failed")
    /\ unslept' = TRUE
    /\ UNCHANGED <<visited, queue, pages_crawled, url, files, metas, hash_seed>>
    /\ UNCHANGED history
    /\ FnUnchanged

\* A routing that parses every successful response that is not a PDF
RouteParsesAll(r) ==
    IF r.status_code # 200 THEN "status"
    ELSE IF Contains(ContentType(r), "application/pdf") THEN "pdf"
    ELSE "html"

\* A routing that forgets the direct link case: a document is not handed to process_pdf
RouteIgnoresPdf(r) ==
    IF r.status_code # 200 THEN "status"
    ELSE IF Contains(ContentType(r), "text/html") THEN "html"
    ELSE "other"

\* crawler.py:141-154: where the crawl loop sends a response
Route(r) ==
    IF r.status_code # 200 THEN "status"
    ELSE IF Contains(ContentType(r), "application/pdf") THEN "pdf"
    ELSE IF Contains(ContentType(r), "text/html") THEN "html"
    ELSE "other"

\* crawler.py:141-154, 185: the response is routed by its status and content type
Dispatch ==
    /\ pc = "dispatch"
    /\ IF Route(response) = "status"
       THEN /\ EndIteration("loop")
            /\ log_level' = "warning"
            /\ UNCHANGED pages_crawled
       ELSE /\ pc' = CASE Route(response) = "pdf"  -> "process_pdf"
                       [] Route(response) = "html" -> "parse"
                       [] OTHER                    -> "sleep"
            /\ pages_crawled' = IF Route(response) = "html"
                                THEN pages_crawled + 1 ELSE pages_crawled
            /\ log_level' = ""
            /\ UNCHANGED locals
    /\ UNCHANGED <<visited, queue, url, files, metas, hash_seed>>
    /\ UNCHANGED history
    /\ UNCHANGED network
    /\ FnUnchanged

\* crawler.py:155-157: the page is handed to the HTML parser, which can fail
Parse ==
    /\ pc = "parse"
    /\ parse_calls' = Inc(parse_calls, url)
    /\ \/ /\ pc' = "links"
          /\ log_level' = ""
          /\ UNCHANGED locals
       \/ Raise(CrawlExcept)
    /\ UNCHANGED <<visited, queue, pages_crawled, url, files, metas, hash_seed>>
    /\ UNCHANGED <<processed, pdf_calls, writes, queue_src, dequeued>>
    /\ UNCHANGED network
    /\ FnUnchanged

\* crawler.py:158-162: the link is resolved against the page and loses its fragment
Normalize[base \in STRING, href \in STRING] == SplitFirst[urljoin[base, Strip(href)], "#"]

\* A test that lets every link of the domain that was not visited into the queue
AdmitsAllValid(u) == is_valid_url(u) /\ ~Seen(u)

\* crawler.py:164-183: whether the crawl loop appends the link to the queue
Admits(u) ==
    IF ~is_valid_url(u) THEN FALSE
    ELSE IF IsPdfUrl(u) THEN ~Seen(u)
    ELSE ~Seen(u) /\ IsPromisingPage(u)

\* An append at the wrong end of the deque
EnqueueLeft(q, x) == <<x>> \o q

\* self.queue.append(x) (crawler.py:170, 183)
Enqueue(q, x) == Append(q, x)

\* The number of entries the page has appended so far
Rank(page) ==
    Cardinality({i \in 1..Len(queue_src) : queue_src[i].page = page}) +
    Cardinality({i \in 1..Len(dequeued) : dequeued[i].page = page})

\* crawler.py:157-183: one anchor of the page
Anchor(href) ==
    /\ pc = "links"
    /\ anchors < MaxLinks
    /\ IF UrlJoinRaises(url, Strip(href))
       THEN /\ Raise(CrawlExcept)
            /\ UNCHANGED <<queue, queue_src>>
       ELSE LET link == Normalize[url, href]
            IN  /\ anchors' = anchors + 1
                /\ IF Admits(link)
                   THEN /\ queue' = Enqueue(queue, link)
                        /\ queue_src' = Enqueue(queue_src,
                                                [page |-> url, k |-> Rank(url) + 1, url |-> link])
                   ELSE UNCHANGED <<queue, queue_src>>
                /\ log_level' = ""
                /\ UNCHANGED <<pc, response, content, local_path, body_read>>
    /\ UNCHANGED <<visited, pages_crawled, url, files, metas, hash_seed>>
    /\ UNCHANGED <<processed, pdf_calls, parse_calls, writes, dequeued>>
    /\ UNCHANGED network
    /\ FnUnchanged

\* crawler.py:157: the page has no more anchors
EndLinks ==
    /\ pc = "links"
    /\ pc' = "sleep"
    /\ log_level' = ""
    /\ UNCHANGED <<visited, queue, pages_crawled, url, files, metas, hash_seed>>
    /\ UNCHANGED locals
    /\ UNCHANGED history
    /\ UNCHANGED network
    /\ FnUnchanged

\* crawler.py:185: time.sleep(0.5)
Sleep ==
    /\ pc = "sleep"
    /\ EndIteration("loop")
    /\ log_level' = ""
    /\ unslept' = FALSE
    /\ UNCHANGED requests
    /\ UNCHANGED <<visited, queue, pages_crawled, url, files, metas, hash_seed>>
    /\ UNCHANGED history
    /\ FnUnchanged

(***************************************************************************)
(* process_pdf (crawler.py:66-118)                                         *)
(***************************************************************************)
\* crawler.py:70: the streamed GET; the body stays on the wire
FetchPdf ==
    /\ pc = "process_pdf"
    /\ pdf_calls' = Inc(pdf_calls, url)
    /\ \/ \E r \in PdfResponses :
            /\ response' = r
            /\ pc' = "filter"
            /\ log_level' = ""
            /\ requests' = Log(requests, url, IF r.status_code # 200 THEN "failed" ELSE "ok")
            /\ UNCHANGED <<content, local_path, anchors, body_read>>
       \/ /\ Raise(PdfExcept)
          /\ requests' = Log(requests, url, "failed")
    /\ UNCHANGED unslept
    /\ UNCHANGED <<visited, queue, pages_crawled, url, files, metas, hash_seed>>
    /\ UNCHANGED <<processed, parse_calls, writes, queue_src, dequeued>>
    /\ FnUnchanged

\* crawler.py:90-91: the declared length is read when the header is there and not empty
DeclaresLength(r) ==
    HasHeader(r.headers, "Content-Length") /\ r.headers["Content-Length"] # ""

\* crawler.py:71-94: what the filters before the download say of the response
Filter(u, r) ==
    IF r.status_code # 200 THEN "status"
    ELSE IF ~Contains(ContentType(r), "application/pdf") THEN "content_type"
    ELSE IF ~is_relevant_pdf(u) THEN "not_relevant"
    ELSE IF DeclaresLength(r) /\ IntRaises[r.headers["Content-Length"]] THEN "raise"
    ELSE IF DeclaresLength(r) /\ ParseInt[r.headers["Content-Length"]] < MIN_FILE_SIZE
         THEN "small"
    ELSE "download"

\* crawler.py:71-97: the filters before the download
FilterPdf ==
    /\ pc = "filter"
    /\ CASE Filter(url, response) = "download" ->
                /\ pc' = "read"
                /\ log_level' = "info"
                /\ UNCHANGED locals
         [] Filter(url, response) = "raise" ->
                Raise(PdfExcept)
         [] OTHER ->
                /\ EndIteration("loop")
                /\ log_level' = IF Filter(url, response) = "status" THEN "warning" ELSE "info"
    /\ UNCHANGED <<visited, queue, pages_crawled, url, files, metas, hash_seed>>
    /\ UNCHANGED history
    /\ UNCHANGED network
    /\ FnUnchanged

\* The check of the bytes read left out
BigEnoughAlways(n) == TRUE

\* crawler.py:102: whether the bytes read are enough
BigEnough(n) == ~(n < MIN_FILE_SIZE)

\* crawler.py:98-104: the body is read to its end, and measured
ReadBody ==
    /\ pc = "read"
    /\ \/ \E n \in BodySizes :
            IF BigEnough(n)
            THEN /\ content' = n
                 /\ body_read' = TRUE
                 /\ UNCHANGED requests
                 /\ pc' = "save"
                 /\ log_level' = ""
                 /\ UNCHANGED <<response, local_path, anchors>>
            ELSE /\ EndIteration("loop")
                 /\ log_level' = "info"
                 /\ UNCHANGED requests
       \/ /\ Raise(PdfExcept)
          /\ requests' = Fail(requests, url)
    /\ UNCHANGED unslept
    /\ UNCHANGED <<visited, queue, pages_crawled, url, files, metas, hash_seed>>
    /\ UNCHANGED history
    /\ FnUnchanged

\* crawler.py:107-111: the name is derived and the file is written, unless
\* the file system refuses
SaveFile ==
    /\ pc = "save"
    /\ \E seed \in (IF hash_seed = 0 /\ UsesFallback(url) THEN HashSeeds ELSE {hash_seed}) :
          LET path == PathJoin(DOWNLOAD_DIR, sanitize_filename(seed, url))
          IN  /\ hash_seed' = seed
              /\ \/ /\ files' = Put(files, path, [url |-> url, size |-> content])
                    /\ writes' = Inc(writes, path)
                    /\ local_path' = path
                    /\ pc' = "metadata"
                    /\ log_level' = ""
                    /\ UNCHANGED <<response, content, anchors, body_read>>
                 \/ /\ Raise(PdfExcept)
                    /\ UNCHANGED <<files, writes>>
    /\ UNCHANGED <<visited, queue, pages_crawled, url, metas>>
    /\ UNCHANGED <<processed, pdf_calls, parse_calls, queue_src, dequeued>>
    /\ UNCHANGED network
    /\ FnUnchanged

\* crawler.py:114-115, utils.py:28-47: the sidecar is written, unless the file system refuses
SaveMetadata ==
    /\ pc = "metadata"
    /\ \/ /\ metas' = Put(metas, MetadataPath(local_path, METADATA_DIR),
                          MetadataRecord(url, local_path))
          /\ writes' = Inc(writes, MetadataPath(local_path, METADATA_DIR))
          /\ EndIteration("loop")
          /\ log_level' = "info"
       \/ /\ Raise(PdfExcept)
          /\ UNCHANGED <<metas, writes>>
    /\ UNCHANGED <<visited, queue, pages_crawled, url, files, hash_seed>>
    /\ UNCHANGED <<processed, pdf_calls, parse_calls, queue_src, dequeued>>
    /\ UNCHANGED network
    /\ FnUnchanged

(***************************************************************************)
(* One run of the crawler                                                  *)
(***************************************************************************)
Next ==
    \/ Dequeue
    \/ Finish
    \/ FetchPage
    \/ Dispatch
    \/ Parse
    \/ EndLinks
    \/ \E href \in Hrefs : Anchor(href)
    \/ Sleep
    \/ FetchPdf
    \/ FilterPdf
    \/ ReadBody
    \/ SaveFile
    \/ SaveMetadata

Spec == Init /\ [][Next]_vars

\* The crawler is one sequential program: a step that can be taken is taken.
FairSpec == Spec /\ WF_vars(Next)

(***************************************************************************)
(* The URL classifier applied to one URL                                   *)
(***************************************************************************)
Schemes == {"https://", "http://", "HTTPS://", "ftp://", "mailto:", "//"}

Hosts == {"icmr.gov.in", "www.icmr.gov.in", "evilicmr.gov.in", "icmr.gov.in.example.com",
          "example.com", "icmr.gov.in:8080", ""}

Paths == {"", "/stw", "/a.pdf?next=icmr.gov.in"}

\* The URLs the classifier is applied to
UrlInputs == {s \o h \o p : s \in Schemes, h \in Hosts, p \in Paths}

InitClassifier ==
    /\ InitCrawler
    /\ fn_in \in UrlInputs
    /\ fn_out = <<>>

\* crawler.py:42-49 called on fn_in
CallIsValidUrl ==
    /\ fn_out = <<>>
    /\ fn_out' = <<"is_valid_url", is_valid_url(fn_in)>>
    /\ UNCHANGED <<crawler, locals, history, network, fn_in>>

NextClassifier == CallIsValidUrl

SpecClassifier == InitClassifier /\ [][NextClassifier]_vars

(***************************************************************************)
(* is_relevant_pdf applied to one URL                                      *)
(***************************************************************************)
RelevanceHosts == {"https://icmr.gov.in", "http://www.icmr.gov.in", "https://stws"}

RelevancePaths == {"", "/stws", "/stws/doc1.pdf", "/STWs/a.PDF", "/misc/report.pdf",
                   "/misc/stw_report.pdf", "/misc/STW_Report.pdf", "/stw/x.pdf",
                   "/stwsx/r.pdf", "/stws/misc/"}

RelevanceTails == {"", "?ref=/stws/x", "?q=stw", "#/STWS/"}

\* The URLs is_relevant_pdf is applied to
RelevanceInputs == {h \o p \o t : h \in RelevanceHosts, p \in RelevancePaths, t \in RelevanceTails}

InitRelevance ==
    /\ InitCrawler
    /\ fn_in \in RelevanceInputs
    /\ fn_out = <<>>

\* crawler.py:51-64 called on fn_in
CallIsRelevantPdf ==
    /\ fn_out = <<>>
    /\ fn_out' = <<"is_relevant_pdf", is_relevant_pdf(fn_in)>>
    /\ UNCHANGED <<crawler, locals, history, network, fn_in>>

NextRelevance == CallIsRelevantPdf

SpecRelevance == InitRelevance /\ [][NextRelevance]_vars

(***************************************************************************)
(* sanitize_filename applied to one URL by one interpreter process after   *)
(* another; each process draws its own seed for hash()                     *)
(***************************************************************************)
FilenameHosts == {"https://icmr.gov.in", "https://www.icmr.gov.in/STWs", "http://x"}

FilenamePaths == {"", "/", "/a b?.pdf", "/doc.PDF", "/report", "/stw%3F.pdf", "/a%2Fb%20c",
                  "/%3F", "/a%2F", "/.pdf", "/*.pdf", "/a:b*c.Pdf", "/x<y>|z\"w.pdf?v=1",
                  "/dir/#frag", "/back\\slash.pdf"}

\* The URLs sanitize_filename is applied to
FilenameInputs == {h \o p : h \in FilenameHosts, p \in FilenamePaths}

InitSanitize ==
    /\ InitCrawler
    /\ fn_in \in FilenameInputs
    /\ fn_out = <<>>

\* utils.py:7-26 called on fn_in in a process of its own
CallSanitizeFilename ==
    /\ Len(fn_out) < MaxRuns
    /\ \E seed \in HashSeeds : fn_out' = Append(fn_out, sanitize_filename(seed, fn_in))
    /\ UNCHANGED <<crawler, locals, history, network, fn_in>>

NextSanitize == CallSanitizeFilename

SpecSanitize == InitSanitize /\ [][NextSanitize]_vars

(***************************************************************************)
(* Properties                                                              *)
(***************************************************************************)
\* The position of u in the sequence s, 0 if u is not in s
Pos(s, u) == IF \E i \in 1..Len(s) : s[i] = u
             THEN CHOOSE i \in 1..Len(s) : s[i] = u /\ \A j \in 1..(i - 1) : s[j] # u
             ELSE 0

\* C1: in a run each URL is added to the visited set at most once, and
\* process_pdf and the HTML parser are each called at most once for it, also
\* when the URL came out of the queue more than once.
C1_AtMostOncePerUrl ==
    /\ \A i, j \in 1..Len(processed) : i # j => processed[i] # processed[j]
    /\ \A u \in DOMAIN pdf_calls : pdf_calls[u] <= 1
    /\ \A u \in DOMAIN parse_calls : parse_calls[u] <= 1

\* A URL has come out of the queue twice and process_pdf has run for it
C1_Witness ==
    \E i, j \in 1..Len(dequeued) :
        /\ i < j
        /\ dequeued[i].url = dequeued[j].url
        /\ Count(pdf_calls, dequeued[i].url) = 1

\* The declared length of a response, when the header carries a number
DeclaredLength(r) == ParseInt[r.headers["Content-Length"]]

\* Every filter of the document processor is passed by the response r to the
\* request for u and by the n bytes read from its body
PassesAllFilters(u, r, n) ==
    /\ r.status_code = 200
    /\ Contains(Lower[HeaderGet(r.headers, "Content-Type", "")], "application/pdf")
    /\ is_relevant_pdf(u)
    /\ (HasHeader(r.headers, "Content-Length") /\ r.headers["Content-Length"] # "")
          => (~IntRaises[r.headers["Content-Length"]] /\ DeclaredLength(r) >= MIN_FILE_SIZE)
    /\ n >= MIN_FILE_SIZE

\* C2: a step writes a file or a metadata record only for a URL whose
\* response passed every filter: status 200, a PDF content type, a relevant
\* URL, a declared length (if any) of at least MIN_FILE_SIZE and at least
\* MIN_FILE_SIZE bytes read; no rejection writes anything.
C2_PersistedOnlyIfAccepted ==
    [][(files' # files \/ metas' # metas) => PassesAllFilters(url, response, content)]_vars

\* A document has been stored with its record, and the document after it is
\* being turned down for its declared length
C2_Witness ==
    /\ DOMAIN files # {}
    /\ DOMAIN metas # {}
    /\ pc = "filter"
    /\ Filter(url, response) = "small"

\* The host of a URL: its netloc without user information and port, in lower case
HostOf(u) ==
    LET n     == UrlNetloc[u]
        h     == SubSeq(n, RFind[n, "@"] + 1, Len(n))
        colon == Find(h, ":")
    IN  Lower[IF colon = 0 THEN h ELSE SubSeq(h, 1, colon - 1)]

\* The in-domain predicate as specified: http or https, and a host that is
\* the domain, a subdomain of it, or empty
InDomain(u) ==
    /\ UrlScheme[u] \in {"http", "https"}
    /\ \/ HostOf(u) = DOMAIN_SUFFIX
       \/ EndsWith[HostOf(u), "." \o DOMAIN_SUFFIX]
       \/ HostOf(u) = ""

\* C3: no out-of-domain URL enters the queue: every URL in the queue is in
\* the domain, and so is every URL the crawler dequeues and fetches.
C3_FrontierInDomain ==
    /\ \A i \in 1..Len(queue) : InDomain(queue[i])
    /\ \A i \in 1..Len(processed) : InDomain(processed[i])

\* C4: is_valid_url is true exactly of the URLs with scheme http or https
\* whose host is the domain, a subdomain of the domain, or empty.
C4_IsValidUrlIsInDomain ==
    fn_out # <<>> => fn_out[2] = InDomain(fn_in)

\* Every entry appended to the queue so far: those dequeued, then those waiting
Entries == dequeued \o queue_src

DeclaresTooSmall(r) ==
    /\ r.status_code = 200
    /\ Contains(Lower[HeaderGet(r.headers, "Content-Type", "")], "application/pdf")
    /\ HasHeader(r.headers, "Content-Length")
    /\ r.headers["Content-Length"] # ""
    /\ ~IntRaises[r.headers["Content-Length"]]
    /\ DeclaredLength(r) < MIN_FILE_SIZE

\* C6: when the response to process_pdf declares a length below the minimum,
\* the URL is rejected by the filters and no byte of its body has been
\* downloaded, whether the URL came by its extension or by its content type.
C6_SmallDeclaredNeverDownloaded ==
    (pc \in {"filter", "read", "save", "metadata"} /\ DeclaresTooSmall(response))
    => (pc = "filter" /\ ~body_read)

\* C7: a stored file and a metadata sidecar are written once: no later step
\* of the run writes the same path again, so that files, sidecars and
\* accepted documents stay one-to-one.
C7_RecordsWrittenOnce ==
    [][\A p \in DOMAIN writes : writes'[p] = writes[p]]_vars

\* C8: the run ends, and it ends at the head of the loop with the queue
\* empty or the page ceiling reached, its last message being the closing one.
C8_Terminates ==
    /\ <>(pc = "done")
    /\ [](pc = "done" => /\ queue = <<>> \/ pages_crawled >= MAX_PAGES
                         /\ log_level = "info")

\* The run has ended at the page ceiling with URLs left in the queue
C8_Witness ==
    /\ pc = "done"
    /\ pages_crawled = MAX_PAGES
    /\ queue # <<>>

\* C9: a step that logs a failure (an error or a warning) hands control back
\* to the head of the loop, and the run ends only from the head of the loop
\* with the queue empty or the page ceiling reached.
C9_FailuresContained ==
    /\ [][log_level' \in {"error", "warning"} => pc' = "loop"]_vars
    /\ [][(pc # "done" /\ pc' = "done")
            => (pc = "loop" /\ (queue = <<>> \/ pages_crawled >= MAX_PAGES))]_vars

\* A failure has just been logged in process_pdf and the loop has more to do
C9_Witness ==
    /\ log_level = "error"
    /\ pc = "loop"
    /\ IsPdfUrl(url)
    /\ queue # <<>>
    /\ pages_crawled < MAX_PAGES

\* C10: the page counter never passes MAX_PAGES; a step raises it, by one,
\* exactly when it routes the response to a URL without the .pdf extension
\* that has status 200 and a text/html content type.
C10_PageCounter ==
    /\ [](pages_crawled <= MAX_PAGES)
    /\ [][pages_crawled' \in {pages_crawled, pages_crawled + 1}]_vars
    /\ [][(pc' # pc \/ pages_crawled' # pages_crawled) =>
            ((pages_crawled' = pages_crawled + 1)
               <=> (/\ pc = "dispatch"
                    /\ ~IsPdfUrl(url)
                    /\ response.status_code = 200
                    /\ Contains(Lower[HeaderGet(response.headers, "Content-Type", "")],
                                "text/html")))]_vars

\* Pages were counted and documents were dispatched both by extension and by
\* content type
C10_Witness ==
    /\ pages_crawled = MAX_PAGES - 1
    /\ \E u \in DOMAIN pdf_calls : IsPdfUrl(u)
    /\ \E u \in DOMAIN pdf_calls : ~IsPdfUrl(u)

\* C11: two processes that call sanitize_filename on a URL whose derived
\* basename is empty get the same filename, and it is not empty.
C11_FallbackDeterministic ==
    (Len(fn_out) >= 2 /\ RemoveInvalid[Basename[unquote[UrlPath[fn_in]]]] = "")
    => (fn_out[1] = fn_out[2] /\ fn_out[1] # "")

\* Whether the segment /stws/ is somewhere in s, whatever the case of its letters
HasSegment(s) == \E i \in 1..Len(s) : i + 5 <= Len(s) /\ Lower[SubSeq(s, i, i + 5)] = "/stws/"

\* Whether the keyword stw is somewhere in s, whatever the case of its letters
HasKeyword(s) == \E i \in 1..Len(s) : i + 2 <= Len(s) /\ Lower[SubSeq(s, i, i + 2)] = "stw"

\* C12 as stated: is_relevant_pdf is true exactly when the path of the URL
\* has the segment /stws/ or the basename of the path has the keyword stw;
\* text outside the path does not make a URL relevant.
C12_RelevantByPathOnly ==
    fn_out # <<>> => fn_out[2] = (HasSegment(UrlPath[fn_in]) \/ HasKeyword(Basename[UrlPath[fn_in]]))

\* C12, amended: is_relevant_pdf is true exactly when the URL as a whole has
\* the segment /stws/, in its path or outside it, or the basename of the
\* path has the keyword stw.
C12_RelevantByWholeUrl ==
    fn_out # <<>> => fn_out[2] = (HasSegment(fn_in) \/ HasKeyword(Basename[UrlPath[fn_in]]))

\* A URL was found relevant for text outside its path
C12_Witness ==
    /\ fn_out = <<"is_relevant_pdf", TRUE>>
    /\ ~HasSegment(UrlPath[fn_in])
    /\ ~HasKeyword(Basename[UrlPath[fn_in]])

\* C13: every filename sanitize_filename returns is not empty, ends with
\* .pdf in some case, has none of the characters \ / * ? : " < > |, and is
\* the fallback name when the basename of the URL's path is empty.
C13_FilenameIsSafe ==
    \A i \in 1..Len(fn_out) :
        /\ fn_out[i] # ""
        /\ Len(fn_out[i]) >= 4
        /\ Lower[SubSeq(fn_out[i], Len(fn_out[i]) - 3, Len(fn_out[i]))] = ".pdf"
        /\ \A k \in 1..Len(fn_out[i]) : CharAt(fn_out[i], k) \notin InvalidChars
        /\ Basename[UrlPath[fn_in]] = "" => StartsWith[fn_out[i], "document_"]

\* A URL whose path has no basename was given the fallback name
C13_Witness ==
    /\ Len(fn_out) = MaxRuns
    /\ Basename[UrlPath[fn_in]] = ""
    /\ StartsWith[fn_out[1], "document_"]

\* C14: a failure while one anchor of a page is handled leaves the crawler on
\* that page: the anchor is skipped and the anchors after it are still handled.
C14_AnchorFailureIsolated ==
    [][(pc = "links" /\ log_level' = "error") => pc' = "links"]_vars

\* C15: when the crawl loop is about to fetch a page, time.sleep has run since
\* the page fetch before, whatever the outcome of that fetch was.
C15_DelayBetweenFetches ==
    pc = "get" => ~unslept

\* C16: at the head of the loop no URL of the queue is in the visited set and
\* no URL is in the queue twice.
C16_QueueHoldsUnprocessed ==
    pc = "loop" =>
        /\ \A i \in 1..Len(queue) : queue[i] \notin visited
        /\ \A i, j \in 1..Len(queue) : i # j => queue[i] # queue[j]

\* Whether u ends with .pdf, whatever the case of its letters
HasPdfExtension(u) == Len(u) >= 4 /\ Lower[SubSeq(u, Len(u) - 3, Len(u))] = ".pdf"

\* C17: a dequeued URL that ends with .pdf never reaches the page branch: the
\* HTML parser is never called on it, and while it is processed no link is
\* appended to the queue and the page counter stays, also when the server
\* answers it with a text/html content type.
C17_PdfUrlsNeverParsed ==
    /\ [](\A u \in DOMAIN parse_calls : ~HasPdfExtension(u))
    /\ [](HasPdfExtension(url) => pc \notin {"get", "dispatch", "parse", "links", "sleep"})
    /\ [][(pc # "loop" /\ HasPdfExtension(url))
            => (pages_crawled' = pages_crawled /\ queue' = queue)]_vars

\* The server has answered a URL that ends with .pdf with a text/html content type
C17_Witness ==
    /\ pc = "filter"
    /\ HasPdfExtension(url)
    /\ response.status_code = 200
    /\ Contains(Lower[HeaderGet(response.headers, "Content-Type", "")], "text/html")

\* Whether one of the requests with the outcomes o has failed
HasFailed(o) == \E i \in 1..Len(o) : o[i] = "failed"

\* C18: once a request for a URL has failed (an error, or a status other than
\* 200), no step sends another request for that URL.
C18_FailedNeverRetried ==
    [][\A u \in DOMAIN requests :
          HasFailed(requests[u]) => Len(requests'[u]) = Len(requests[u])]_vars

\* A URL whose fetch failed has come out of the queue a second time
C18_Witness ==
    \E i, j \in 1..Len(dequeued) :
        /\ i < j
        /\ dequeued[i].url = dequeued[j].url
        /\ dequeued[i].url \in DOMAIN requests
        /\ HasFailed(requests[dequeued[i].url])

\* The topical keywords of the crawl loop
TopicalKeywords == {"standard-treatment-workflows", "/stw", "/STWs/", "guidelines"}

\* Whether u may be in the queue: a document by its extension, or a page with a topical keyword
MayBeQueued(u) ==
    \/ HasPdfExtension(u)
    \/ \E kw \in TopicalKeywords : \E i \in 1..Len(u) :
            i + Len(kw) - 1 <= Len(u) /\ SubSeq(u, i, i + Len(kw) - 1) = kw

\* C19: every URL a page has put into the queue ends with .pdf or has a
\* topical keyword, and a step that appends a URL to the queue appends one
\* that is not in the visited set.
C19_OnlyPromisingEnqueued ==
    /\ [](\A i \in 1..Len(queue) : queue_src[i].page # "" => MayBeQueued(queue[i]))
    /\ [][Len(queue') > Len(queue)
            => (/\ queue'[Len(queue')] \notin visited
                /\ MayBeQueued(queue'[Len(queue')]))]_vars

\* A page that a page had put into the queue is being read: one of its links
\* was handled and kept out of the queue, and the queue holds a document that
\* a page has put there
C19_Witness ==
    /\ pc = "links"
    /\ url # START_URL
    /\ anchors > Cardinality({i \in 1..Len(queue_src) : queue_src[i].page = url})
    /\ \E i \in 1..Len(queue) : queue_src[i].page # "" /\ HasPdfExtension(queue[i])

\* The number of requests sent for u
Requested(u) == IF u \in DOMAIN requests THEN Len(requests[u]) ELSE 0

\* C20: a URL that ends with .pdf is requested at most once and any other URL
\* at most twice; no URL is requested before it is in the visited set; and
\* when the loop is at its head or over, a URL that does not end with .pdf
\* has been requested twice exactly when the first response to it had status
\* 200 and an application/pdf content type.
C20_RequestsPerUrl ==
    /\ \A u \in DOMAIN requests :
          /\ u \in visited
          /\ Requested(u) <= (IF HasPdfExtension(u) THEN 1 ELSE 2)
    /\ pc \in {"loop", "done"} =>
          \A u \in DOMAIN requests :
              ~HasPdfExtension(u) => (Requested(u) = 2 <=> requests[u][1] = "pdf")

\* A URL without the extension was requested twice and a URL with it once
C20_Witness ==
    /\ pc = "loop"
    /\ \E u \in DOMAIN requests : ~HasPdfExtension(u) /\ Requested(u) = 2
    /\ \E u \in DOMAIN requests : HasPdfExtension(u) /\ Requested(u) = 1
    /\ \E u \in DOMAIN requests : ~HasPdfExtension(u) /\ Requested(u) = 1

=============================================================================
